---- MODULE Spec2Model ----
(***************************************************************************)
(* Scaled dot-product multi-head attention of the transformer notebook:    *)
(* PrepareForMultiHeadAttention (linear map + view into heads) and         *)
(* MultiHeadAttention (__init__, get_scores, prepare_mask, forward).       *)
(*                                                                         *)
(* Tensors are contiguous row-major arrays: a record of a shape and the    *)
(* flat data.  Numbers are exact extended rationals <<n, d>>:              *)
(*   d > 0   the rational n/d (kept in lowest terms)                       *)
(*   <<-1,0>> negative infinity,  <<0,0>> NaN.                             *)
(* exp is tracked in units of u = e^scale: exp(scale * n) = u^n, and the   *)
(* model computes with u = ExpBase, so that softmax weights are exact      *)
(* ratios; the positivity, monotonicity and normalisation of softmax are   *)
(* those of the real exponential.                                          *)
(***************************************************************************)
EXTENDS Integers, Sequences, FiniteSets, TLC

\* ---------------------------------------------------------------- bounds
MaxSeq == 2
MaxBatch == 2
MaxHeads == 2
MaxDModel == 3
MaxLead == 2
MaxDHeads == 2

\* the families the parameters, the input data and the masks are drawn from
WeightSeeds == {1}
DataSeeds == {0, 1}
MaskSeeds == {0, 1, 2}
MaskedDataSeeds == {0}
\* the flat positions nn.Dropout may zero in one call
DropSets == {{}, {1}}

\* ------------------------------------------------------- program constants
\* dropout_prob = 0.1, the default of __init__
DropNum == 1
DropDen == 10
\* stand-in for e^scale in exp(scale * n)
ExpBase == 2

\* --------------------------------------------------------------- numbers
RECURSIVE Gcd(_, _)
Gcd(a, b) == IF b = 0 THEN a ELSE Gcd(b, a % b)

Abs(n) == IF n < 0 THEN -n ELSE n

NaN == <<0, 0>>
NegInf == <<-1, 0>>
Q(n) == <<n, 1>>
IsNaN(a) == a = NaN
IsFinite(a) == a[2] > 0

QNorm(n, d) == LET g == Gcd(Abs(n), d) IN <<n \div g, d \div g>>

\* IEEE arithmetic on the values the pipeline produces
QAdd(a, b) ==
  IF IsNaN(a) \/ IsNaN(b) THEN NaN
  ELSE IF ~IsFinite(a) \/ ~IsFinite(b) THEN NegInf
  ELSE QNorm(a[1] * b[2] + b[1] * a[2], a[2] * b[2])

QMul(a, b) ==
  IF IsNaN(a) \/ IsNaN(b) THEN NaN
  ELSE IF IsFinite(a) /\ IsFinite(b) THEN QNorm(a[1] * b[1], a[2] * b[2])
  ELSE IF (IsFinite(a) /\ a[1] = 0) \/ (IsFinite(b) /\ b[1] = 0) THEN NaN
  ELSE NegInf

RECURSIVE QSum(_)
QSum(s) == IF s = <<>> THEN Q(0) ELSE QAdd(s[1], QSum(Tail(s)))

RECURSIVE Pow(_, _)
Pow(b, e) == IF e = 0 THEN 1 ELSE b * Pow(b, e - 1)

\* --------------------------------------------------------------- tensors
Front(s) == SubSeq(s, 1, Len(s) - 1)
Last(s) == s[Len(s)]

RECURSIVE Prod(_)
Prod(s) == IF s = <<>> THEN 1 ELSE s[1] * Prod(Tail(s))

\* row-major offset of a 0-based index
RECURSIVE Offset(_, _)
Offset(shape, idx) ==
  IF shape = <<>> THEN 0
  ELSE Last(idx) + Last(shape) * Offset(Front(shape), Front(idx))

RECURSIVE Unravel(_, _)
Unravel(shape, k) ==
  IF shape = <<>> THEN <<>>
  ELSE Append(Unravel(Front(shape), k \div Last(shape)), k % Last(shape))

Indices(shape) == {Unravel(shape, k) : k \in 0 .. Prod(shape) - 1}

At(t, idx) == t.data[Offset(t.shape, idx) + 1]

Build(shape, F(_)) ==
  [shape |-> shape, data |-> [k \in 1 .. Prod(shape) |-> F(Unravel(shape, k - 1))]]

\* a local that has not been assigned
Nil == [shape |-> <<>>, data |-> <<>>]

\* broadcasting of one axis
Compatible(m, n) == m = n \/ m = 1 \/ n = 1
BDim(m, n) == IF m = 1 THEN n ELSE m
BIdx(size, i) == IF size = 1 THEN 0 ELSE i

\* ------------------------------------------------------------- parameters
\* nn.Linear's weight and bias: a family of 0/1 matrices indexed by a seed
WEntry(seed, din, k, o) == IF (k + seed) % din = o % din THEN 1 ELSE 0
BEntry(seed, o) == (o + seed) % 2

\* an input tensor of a given shape: 0/1 data indexed by a seed
DataEntry(seed, k) == (((k + seed) * (k + seed + 1)) \div 2) % 2
Data(shape, seed) ==
  [shape |-> shape, data |-> [k \in 1 .. Prod(shape) |-> Q(DataEntry(seed, k))]]

\* a boolean mask: all true, except flat position mseed when mseed > 0
MaskData(shape, mseed) ==
  [shape |-> shape, data |-> [k \in 1 .. Prod(shape) |-> k # mseed]]

\* ------------------------------------------------------------- nn.Linear
LinearOk(x, din) == Len(x.shape) >= 1 /\ Last(x.shape) = din

Linear(x, seed, din, dout, bias) ==
  Build(Front(x.shape) \o <<dout>>,
        LAMBDA idx :
          QAdd(QSum([k \in 1 .. din |->
                      QMul(At(x, Front(idx) \o <<k - 1>>),
                           Q(WEntry(seed, din, k - 1, Last(idx))))]),
               Q(IF bias THEN BEntry(seed, Last(idx)) ELSE 0)))

\* ------------------------------------------ PrepareForMultiHeadAttention
NewPrepare(d_model, n_heads, d_heads, bias, seed) ==
  [d_model |-> d_model, n_heads |-> n_heads, d_heads |-> d_heads,
   bias |-> bias, seed |-> seed]

\* x.view(*head_shape, n_heads, d_heads): same storage, new shape
ViewHeadsSwapped(y, head_shape, n_heads, d_heads) ==
  [shape |-> head_shape \o <<d_heads, n_heads>>, data |-> y.data]

ViewHeads(y, head_shape, n_heads, d_heads) ==
  [shape |-> head_shape \o <<n_heads, d_heads>>, data |-> y.data]

PrepareLinear(p, x) == Linear(x, p.seed, p.d_model, p.n_heads * p.d_heads, p.bias)

PrepareOk(p, x) == LinearOk(x, p.d_model)

PrepareForward(p, x) ==
  ViewHeads(PrepareLinear(p, x), Front(x.shape), p.n_heads, p.d_heads)

\* ------------------------------------------------- MultiHeadAttention
\* torch.einsum('ibhd,jbhd->ibhj', query, key)
GetScoresOk(q, k) ==
  /\ Len(q.shape) = 4 /\ Len(k.shape) = 4
  /\ Compatible(q.shape[2], k.shape[2])
  /\ Compatible(q.shape[3], k.shape[3])
  /\ Compatible(q.shape[4], k.shape[4])

GetScores(q, k) ==
  LET qs == q.shape
      ks == k.shape
  IN Build(<<qs[1], BDim(qs[2], ks[2]), BDim(qs[3], ks[3]), ks[1]>>,
           LAMBDA idx :
             QSum([d \in 1 .. BDim(qs[4], ks[4]) |->
                    QMul(At(q, <<idx[1], BIdx(qs[2], idx[2]), BIdx(qs[3], idx[3]),
                                 BIdx(qs[4], d - 1)>>),
                         At(k, <<idx[4], BIdx(ks[2], idx[2]), BIdx(ks[3], idx[3]),
                                 BIdx(ks[4], d - 1)>>))]))

\* the three asserts of prepare_mask
MaskShapeOkNoBatch(mshape, query_shape, key_shape) ==
  /\ mshape[1] = 1 \/ mshape[1] = query_shape[1]
  /\ mshape[2] = key_shape[1]

MaskShapeOk(mshape, query_shape, key_shape) ==
  /\ mshape[1] = 1 \/ mshape[1] = query_shape[1]
  /\ mshape[2] = key_shape[1]
  /\ mshape[3] = 1 \/ mshape[3] = query_shape[2]

\* mask.unsqueeze(-1)
Unsqueeze(m) == [shape |-> m.shape \o <<1>>, data |-> m.data]

\* scores.masked_fill(mask == 0, -inf): the mask broadcasts to scores' shape
MaskedFillOk(scores, mask4) ==
  /\ Len(mask4.shape) <= Len(scores.shape)
  /\ \A a \in 1 .. Len(mask4.shape) :
       LET sa == a + Len(scores.shape) - Len(mask4.shape)
       IN mask4.shape[a] = 1 \/ mask4.shape[a] = scores.shape[sa]

MaskedFill(scores, mask4) ==
  LET off == Len(scores.shape) - Len(mask4.shape)
  IN Build(scores.shape,
           LAMBDA idx :
             IF At(mask4, [a \in 1 .. Len(mask4.shape) |->
                             BIdx(mask4.shape[a], idx[a + off])])
             THEN At(scores, idx)
             ELSE NegInf)

\* nn.Softmax(dim=-1) on one row; exp(-inf) = 0, and a row of -inf only is NaN
SoftmaxRow(row) ==
  LET fin == {j \in 1 .. Len(row) : IsFinite(row[j])}
  IN IF fin = {} \/ \E j \in 1 .. Len(row) : IsNaN(row[j])
     THEN [j \in 1 .. Len(row) |-> NaN]
     ELSE LET m == CHOOSE v \in {row[j][1] : j \in fin} :
                     \A w \in {row[j][1] : j \in fin} : v <= w
              e == [j \in 1 .. Len(row) |->
                     IF j \in fin THEN Pow(ExpBase, row[j][1] - m) ELSE 0]
              den == QSum([j \in 1 .. Len(row) |-> Q(e[j])])[1]
          IN [j \in 1 .. Len(row) |-> QNorm(e[j], den)]

Softmax(t) ==
  Build(t.shape,
        LAMBDA idx :
          SoftmaxRow([j \in 1 .. Last(t.shape) |->
                        At(t, Front(idx) \o <<j - 1>>)])[Last(idx) + 1])

\* nn.Dropout(p) in training mode: the elements at the flat positions of
\* drop are zeroed, the others are scaled by 1 / (1 - p)
Dropout(t, drop) ==
  [shape |-> t.shape,
   data |-> [k \in 1 .. Len(t.data) |->
               IF k \in drop THEN QMul(t.data[k], Q(0))
               ELSE QMul(t.data[k], <<DropDen, DropDen - DropNum>>)]]

\* torch.einsum('ijbh, jbhd->ibhd', attn, value)
AggregateOk(a, v) ==
  /\ Len(a.shape) = 4 /\ Len(v.shape) = 4
  /\ Compatible(a.shape[2], v.shape[1])
  /\ Compatible(a.shape[3], v.shape[2])
  /\ Compatible(a.shape[4], v.shape[3])

Aggregate(a, v) ==
  LET as == a.shape
      vs == v.shape
  IN Build(<<as[1], BDim(as[3], vs[2]), BDim(as[4], vs[3]), vs[4]>>,
           LAMBDA idx :
             QSum([j \in 1 .. BDim(as[2], vs[1]) |->
                    QMul(At(a, <<idx[1], BIdx(as[2], j - 1), BIdx(as[3], idx[2]),
                                 BIdx(as[4], idx[3])>>),
                         At(v, <<BIdx(vs[1], j - 1), BIdx(vs[2], idx[2]),
                                 BIdx(vs[3], idx[3]), idx[4]>>))]))

\* x.reshape(seq_len, batch_size, -1) of a contiguous tensor
ReshapeOk(t, n0, n1) == Prod(t.shape) % (n0 * n1) = 0
Reshape(t, n0, n1) ==
  [shape |-> <<n0, n1, Prod(t.shape) \div (n0 * n1)>>, data |-> t.data]

\* ------------------------------------------------------------------ state
VARIABLES
  obj,         \* the MultiHeadAttention instance (its fixed fields)
  self_attn,   \* self.attn: <<>> is None, <<t>> a retained tensor
  pc,          \* the statement of forward to execute next
  args,        \* the arguments of the current forward call
  query, key, value, mask, scores, attn, x, seq_len, batch_size,  \* locals
  tracked,     \* what tracker.add('attn', .) received in this call
  result,      \* the returned tensor
  raised_at,   \* the statement that raised
  steps,       \* the statements of this call that have completed
  attn_before, \* self.attn when the current call started
  prep, px, py, ppc  \* a standalone PrepareForMultiHeadAttention and its call

locals == <<query, key, value, mask, scores, attn, x, seq_len, batch_size>>
prepvars == <<prep, px, py, ppc>>
mhavars == <<obj, self_attn, pc, args, locals, tracked, result, raised_at,
             steps, attn_before>>
vars == <<mhavars, prepvars>>

NoObj == [state |-> "new", n_heads |-> 0, d_model |-> 0, n_features |-> 0, seed |-> 0]
NoArgs == [q |-> Nil, k |-> Nil, v |-> Nil, mask |-> <<>>]
NoPrep == NewPrepare(0, 0, 0, FALSE, 0)

Init ==
  /\ obj = NoObj
  /\ self_attn = <<>>
  /\ pc = "new"
  /\ args = NoArgs
  /\ query = Nil /\ key = Nil /\ value = Nil /\ mask = <<>>
  /\ scores = Nil /\ attn = Nil /\ x = Nil
  /\ seq_len = 0 /\ batch_size = 0
  /\ tracked = <<>>
  /\ result = <<>>
  /\ raised_at = ""
  /\ steps = <<>>
  /\ attn_before = <<>>
  /\ prep = NoPrep /\ px = Nil /\ py = Nil /\ ppc = "new"

\* ----------------------------------------------- MultiHeadAttention.__init__
\* the three projections and the output layer of an instance
QueryHead(o) == NewPrepare(o.d_model, o.n_heads, o.n_features, TRUE, o.seed)
KeyHead(o) == NewPrepare(o.d_model, o.n_heads, o.n_features, TRUE, o.seed + 1)
ValueHead(o) == NewPrepare(o.d_model, o.n_heads, o.n_features, TRUE, o.seed + 2)
OutputLinear(o, t) == Linear(t, o.seed + 3, o.d_model, o.d_model, TRUE)

\* what __init__ checks: 1 / math.sqrt(n_features) raises when n_features = 0
InitOk(n_heads, d_model) == d_model \div n_heads # 0

Construct ==
  /\ pc = "new"
  /\ \E n_heads \in 1 .. MaxHeads, d_model \in 1 .. MaxDModel, seed \in WeightSeeds :
       IF InitOk(n_heads, d_model)
       THEN /\ obj' = [state |-> "ok", n_heads |-> n_heads, d_model |-> d_model,
                       n_features |-> d_model \div n_heads, seed |-> seed]
            /\ pc' = "idle"
       ELSE /\ obj' = [state |-> "failed", n_heads |-> n_heads, d_model |-> d_model,
                       n_features |-> d_model \div n_heads, seed |-> seed]
            /\ pc' = "no_instance"
  /\ self_attn' = <<>>
  /\ UNCHANGED <<args, locals, tracked, result, raised_at, steps, attn_before, prepvars>>

\* ------------------------------------------------ MultiHeadAttention.forward
\* the statement that follows a completed statement
AfterDropoutFirst(step, masked) ==
  CASE step = "call" -> IF masked THEN "prepare_mask" ELSE "query"
    [] step = "prepare_mask" -> "query"
    [] step = "query" -> "key"
    [] step = "key" -> "value"
    [] step = "value" -> "scores"
    [] step = "scores" -> IF masked THEN "masked_fill" ELSE "softmax"
    [] step = "masked_fill" -> "softmax"
    [] step = "softmax" -> "dropout"
    [] step = "dropout" -> "tracker"
    [] step = "tracker" -> "einsum"
    [] step = "einsum" -> "store"
    [] step = "store" -> "reshape"
    [] step = "reshape" -> "output"
    [] step = "output" -> "returned"

After(step, masked) ==
  CASE step = "call" -> IF masked THEN "prepare_mask" ELSE "query"
    [] step = "prepare_mask" -> "query"
    [] step = "query" -> "key"
    [] step = "key" -> "value"
    [] step = "value" -> "scores"
    [] step = "scores" -> IF masked THEN "masked_fill" ELSE "softmax"
    [] step = "masked_fill" -> "softmax"
    [] step = "softmax" -> "tracker"
    [] step = "tracker" -> "dropout"
    [] step = "dropout" -> "einsum"
    [] step = "einsum" -> "store"
    [] step = "store" -> "reshape"
    [] step = "reshape" -> "output"
    [] step = "output" -> "returned"

Done(step) ==
  /\ pc' = After(step, mask # <<>>)
  /\ steps' = Append(steps, step)
  /\ raised_at' = raised_at

Raise(step) ==
  /\ pc' = "raised"
  /\ steps' = steps
  /\ raised_at' = step

Other(n, max) == (n % max) + 1

Mismatches == {"none", "q_width", "k_width", "v_width", "k_batch", "v_batch", "v_seq"}

\* forward(query=q, key=k, value=v, mask=m); seq_len, batch_size, _ = query.shape
StartCall(q, k, v, m) ==
  /\ pc = "idle"
  /\ args' = [q |-> q, k |-> k, v |-> v, mask |-> m]
  /\ query' = q /\ key' = k /\ value' = v /\ mask' = m
  /\ seq_len' = q.shape[1] /\ batch_size' = q.shape[2]
  /\ attn_before' = self_attn
  /\ pc' = After("call", m # <<>>)
  /\ UNCHANGED <<obj, self_attn, scores, attn, x, tracked, result, raised_at,
                 steps, prepvars>>

\* a call without a mask; at most one of the shapes disagrees
Call ==
  \E sq \in 1 .. MaxSeq, b \in 1 .. MaxBatch, sk \in 1 .. MaxSeq,
     mism \in Mismatches, seed \in DataSeeds :
    LET d == obj.d_model
        W(kind) == IF mism = kind THEN d + 1 ELSE d
    IN StartCall(
         Data(<<sq, b, W("q_width")>>, seed),
         Data(<<sk, IF mism = "k_batch" THEN Other(b, MaxBatch) ELSE b, W("k_width")>>,
              seed + 1),
         Data(<<IF mism = "v_seq" THEN Other(sk, MaxSeq) ELSE sk,
                IF mism = "v_batch" THEN Other(b, MaxBatch) ELSE b, W("v_width")>>,
              seed + 2),
         <<>>)

\* a call with a 3-axis mask, on well-shaped key and value and a query that
\* is well-shaped or too wide; each axis of the mask is 1, the matching size
\* or another size
CallMasked ==
  \E sq \in 1 .. MaxSeq, b \in 1 .. MaxBatch, sk \in 1 .. MaxSeq,
     seed \in MaskedDataSeeds, mseed \in MaskSeeds, mism \in {"none", "q_width"} :
   \E m0 \in {1, sq, Other(sq, MaxSeq)}, m1 \in {sk, Other(sk, MaxSeq)},
      m2 \in {1, b, Other(b, MaxBatch)} :
    LET d == obj.d_model
    IN StartCall(Data(<<sq, b, IF mism = "q_width" THEN d + 1 ELSE d>>, seed),
                 Data(<<sk, b, d>>, seed + 1),
                 Data(<<sk, b, d>>, seed + 2),
                 <<MaskData(<<m0, m1, m2>>, mseed)>>)

PrepareMask ==
  /\ pc = "prepare_mask"
  /\ IF MaskShapeOk(mask[1].shape, query.shape, key.shape)
     THEN /\ mask' = <<Unsqueeze(mask[1])>>
          /\ Done("prepare_mask")
     ELSE /\ mask' = mask
          /\ Raise("prepare_mask")
  /\ UNCHANGED <<obj, self_attn, args, query, key, value, scores, attn, x, seq_len,
                 batch_size, tracked, result, attn_before, prepvars>>

ProjQuery ==
  /\ pc = "query"
  /\ IF PrepareOk(QueryHead(obj), query)
     THEN /\ query' = PrepareForward(QueryHead(obj), query)
          /\ Done("query")
     ELSE /\ query' = query
          /\ Raise("query")
  /\ UNCHANGED <<obj, self_attn, args, key, value, mask, scores, attn, x, seq_len,
                 batch_size, tracked, result, attn_before, prepvars>>

ProjKey ==
  /\ pc = "key"
  /\ IF PrepareOk(KeyHead(obj), key)
     THEN /\ key' = PrepareForward(KeyHead(obj), key)
          /\ Done("key")
     ELSE /\ key' = key
          /\ Raise("key")
  /\ UNCHANGED <<obj, self_attn, args, query, value, mask, scores, attn, x, seq_len,
                 batch_size, tracked, result, attn_before, prepvars>>

ProjValue ==
  /\ pc = "value"
  /\ IF PrepareOk(ValueHead(obj), value)
     THEN /\ value' = PrepareForward(ValueHead(obj), value)
          /\ Done("value")
     ELSE /\ value' = value
          /\ Raise("value")
  /\ UNCHANGED <<obj, self_attn, args, query, key, mask, scores, attn, x, seq_len,
                 batch_size, tracked, result, attn_before, prepvars>>

\* scores = self.get_scores(query, key) * self.scale (in units of scale)
Scores ==
  /\ pc = "scores"
  /\ IF GetScoresOk(query, key)
     THEN /\ scores' = GetScores(query, key)
          /\ Done("scores")
     ELSE /\ scores' = scores
          /\ Raise("scores")
  /\ UNCHANGED <<obj, self_attn, args, query, key, value, mask, attn, x, seq_len,
                 batch_size, tracked, result, attn_before, prepvars>>

MaskedFillStep ==
  /\ pc = "masked_fill"
  /\ IF MaskedFillOk(scores, mask[1])
     THEN /\ scores' = MaskedFill(scores, mask[1])
          /\ Done("masked_fill")
     ELSE /\ scores' = scores
          /\ Raise("masked_fill")
  /\ UNCHANGED <<obj, self_attn, args, query, key, value, mask, attn, x, seq_len,
                 batch_size, tracked, result, attn_before, prepvars>>

SoftmaxStep ==
  /\ pc = "softmax"
  /\ attn' = Softmax(scores)
  /\ Done("softmax")
  /\ UNCHANGED <<obj, self_attn, args, query, key, value, mask, scores, x, seq_len,
                 batch_size, tracked, result, attn_before, prepvars>>

\* tracker.add('attn', attn)
TrackerAdd ==
  /\ pc = "tracker"
  /\ tracked' = <<attn>>
  /\ Done("tracker")
  /\ UNCHANGED <<obj, self_attn, args, locals, result, attn_before, prepvars>>

\* attn = self.dropout(attn); the module is in training mode
DropoutStep ==
  /\ pc = "dropout"
  /\ \E drop \in DropSets :
       attn' = Dropout(attn, drop)
  /\ Done("dropout")
  /\ UNCHANGED <<obj, self_attn, args, query, key, value, mask, scores, x, seq_len,
                 batch_size, tracked, result, attn_before, prepvars>>

AggregateStep ==
  /\ pc = "einsum"
  /\ IF AggregateOk(attn, value)
     THEN /\ x' = Aggregate(attn, value)
          /\ Done("einsum")
     ELSE /\ x' = x
          /\ Raise("einsum")
  /\ UNCHANGED <<obj, self_attn, args, query, key, value, mask, scores, attn, seq_len,
                 batch_size, tracked, result, attn_before, prepvars>>

\* self.attn = attn.detach()
StoreAttn ==
  /\ pc = "store"
  /\ self_attn' = <<attn>>
  /\ Done("store")
  /\ UNCHANGED <<obj, args, locals, tracked, result, attn_before, prepvars>>

ReshapeStep ==
  /\ pc = "reshape"
  /\ IF ReshapeOk(x, seq_len, batch_size)
     THEN /\ x' = Reshape(x, seq_len, batch_size)
          /\ Done("reshape")
     ELSE /\ x' = x
          /\ Raise("reshape")
  /\ UNCHANGED <<obj, self_attn, args, query, key, value, mask, scores, attn, seq_len,
                 batch_size, tracked, result, attn_before, prepvars>>

\* return self.output(x)
OutputStep ==
  /\ pc = "output"
  /\ IF LinearOk(x, obj.d_model)
     THEN /\ result' = <<OutputLinear(obj, x)>>
          /\ Done("output")
     ELSE /\ result' = result
          /\ Raise("output")
  /\ UNCHANGED <<obj, self_attn, args, locals, tracked, attn_before, prepvars>>

Next ==
  \/ Construct
  \/ Call
  \/ CallMasked
  \/ PrepareMask
  \/ ProjQuery
  \/ ProjKey
  \/ ProjValue
  \/ Scores
  \/ MaskedFillStep
  \/ SoftmaxStep
  \/ TrackerAdd
  \/ DropoutStep
  \/ AggregateStep
  \/ StoreAttn
  \/ ReshapeStep
  \/ OutputStep

Spec == Init /\ [][Next]_vars

\* --------------------------- a standalone PrepareForMultiHeadAttention
PConstruct ==
  /\ ppc = "new"
  /\ \E d_model \in 1 .. MaxDModel, n_heads \in 1 .. MaxHeads,
        d_heads \in 1 .. MaxDHeads, bias \in BOOLEAN, seed \in WeightSeeds :
       prep' = NewPrepare(d_model, n_heads, d_heads, bias, seed)
  /\ ppc' = "idle"
  /\ UNCHANGED <<px, py, mhavars>>

\* prepare(x) with x of shape (batch, width) or (seq, batch, width)
PCall ==
  /\ ppc = "idle"
  /\ \E lead \in {<<b>> : b \in 1 .. MaxLead}
                 \cup {<<s, b>> : s \in 1 .. MaxLead, b \in 1 .. MaxLead},
        width \in {prep.d_model, prep.d_model + 1}, seed \in DataSeeds :
       px' = Data(lead \o <<width>>, seed)
  /\ ppc' = "called"
  /\ UNCHANGED <<prep, py, mhavars>>

PForward ==
  /\ ppc = "called"
  /\ IF PrepareOk(prep, px)
     THEN /\ py' = PrepareForward(prep, px)
          /\ ppc' = "returned"
     ELSE /\ py' = py
          /\ ppc' = "raised"
  /\ UNCHANGED <<prep, px, mhavars>>

NextPrepare ==
  \/ PConstruct
  \/ PCall
  \/ PForward

SpecPrepare == Init /\ [][NextPrepare]_vars

\* ================================================================ claims
\* the dimensions of the current call, read off its arguments
Sq == args.q.shape[1]
B == args.q.shape[2]
Sk == args.k.shape[1]
H == obj.n_heads
D == obj.n_features
InCall == pc \notin {"new", "no_instance", "idle"}

\* query (Sq, B, d_model), key and value (Sk, B, d_model)
WellShaped ==
  /\ args.q.shape = <<Sq, B, obj.d_model>>
  /\ args.k.shape = <<Sk, B, obj.d_model>>
  /\ args.v.shape = <<Sk, B, obj.d_model>>

MaskGiven == args.mask # <<>>

\* dim0 in {1, Sq}, dim1 = Sk, dim2 in {1, B}
MaskValid ==
  LET ms == args.mask[1].shape
  IN ms[1] \in {1, Sq} /\ ms[2] = Sk /\ ms[3] \in {1, B}

\* the mask entry of (query position i, key position j, batch item b)
MaskAt(i, j, b) ==
  LET m == args.mask[1]
  IN At(m, <<BIdx(m.shape[1], i), j, BIdx(m.shape[3], b)>>)

Attendable(i, j, b) == ~MaskGiven \/ MaskAt(i, j, b)

NumericWork == {"query", "key", "value", "scores", "masked_fill", "softmax", "tracker"}

Range(seq) == {seq[k] : k \in 1 .. Len(seq)}

\* C1: on well-shaped inputs without a mask, with d_model divisible by
\* n_heads, forward does not raise and returns a tensor of shape
\* (Sq, B, d_model).
C1_ForwardReturnsShape ==
  (InCall /\ ~MaskGiven /\ WellShaped /\ obj.d_model % H = 0)
    => /\ pc # "raised"
       /\ pc = "returned" => result[1].shape = <<Sq, B, obj.d_model>>

\* C2: with a valid mask, after softmax every weight (i, b, h, j) whose mask
\* entry (i, j, b) is false is 0 (in a row that keeps an attendable key), and
\* every weight whose mask entry is true is a positive number.
C2_MaskedWeightsZero ==
  (pc = "tracker" /\ MaskGiven /\ MaskValid /\ WellShaped)
    => /\ attn.shape = <<Sq, B, H, Sk>>
       /\ \A i \in 0 .. Sq - 1, j \in 0 .. Sk - 1, b \in 0 .. B - 1, h \in 0 .. H - 1 :
            (\E j2 \in 0 .. Sk - 1 : MaskAt(i, j2, b))
              => IF MaskAt(i, j, b)
                 THEN IsFinite(At(attn, <<i, b, h, j>>)) /\ At(attn, <<i, b, h, j>>)[1] > 0
                 ELSE At(attn, <<i, b, h, j>>) = Q(0)

\* C3: after softmax, for every (i, b, h) with at least one attendable key
\* the weights over the key positions j are non-negative and sum to 1.
C3_RowsNormalised ==
  (pc = "tracker" /\ WellShaped /\ (MaskGiven => MaskValid))
    => /\ attn.shape = <<Sq, B, H, Sk>>
       /\ \A i \in 0 .. Sq - 1, b \in 0 .. B - 1, h \in 0 .. H - 1 :
            (\E j \in 0 .. Sk - 1 : Attendable(i, j, b))
              => /\ \A j \in 0 .. Sk - 1 :
                      /\ IsFinite(At(attn, <<i, b, h, j>>))
                      /\ At(attn, <<i, b, h, j>>)[1] >= 0
                 /\ QSum([j \in 1 .. Sk |-> At(attn, <<i, b, h, j - 1>>)]) = Q(1)

\* C4: a 3-axis mask is rejected, before any projection runs, exactly when
\* it violates dim0 in {1, Sq}, dim1 = Sk, dim2 in {1, B}; an accepted mask
\* goes on with the same content and a trailing axis of size 1.
C4_MaskValidation ==
  (InCall /\ MaskGiven /\ pc # "prepare_mask")
    => IF MaskValid
       THEN /\ raised_at # "prepare_mask"
            /\ steps[1] = "prepare_mask"
            /\ mask = <<[shape |-> args.mask[1].shape \o <<1>>,
                         data |-> args.mask[1].data]>>
       ELSE /\ pc = "raised" /\ raised_at = "prepare_mask"
            /\ steps = <<>>
            /\ query = args.q /\ key = args.k /\ value = args.v

C4_Witness ==
  /\ pc = "key"
  /\ MaskGiven /\ MaskValid
  /\ Sq = 2 /\ args.mask[1].shape = <<1, 2, 1>>
  /\ mask[1].shape = <<1, 2, 1, 1>>
  /\ FALSE \in Range(mask[1].data)

\* C5: a shape mismatch among query, key and value makes the call fail, and
\* no projection, score computation, softmax or recording has been performed
\* when the failure is raised.
C5_FailFast ==
  (InCall /\ ~MaskGiven /\ ~WellShaped)
    => /\ pc # "returned"
       /\ pc = "raised" => Range(steps) \cap NumericWork = {}

\* C6: an instance whose d_model is not divisible by n_heads is never
\* constructed, so forward never fails because n_heads * n_features differs
\* from d_model.
C6_IndivisibleRejected ==
  /\ obj.state = "ok" => obj.d_model % obj.n_heads = 0
  /\ (pc = "raised" /\ raised_at = "output" /\ WellShaped)
       => H * D = obj.d_model

C8_AggregationContractsKeys ==
  (pc = "store" /\ WellShaped)
    => /\ x.shape = <<Sq, B, H, D>>
       /\ \A i \in 0 .. Sq - 1, b \in 0 .. B - 1, h \in 0 .. H - 1, d \in 0 .. D - 1 :
            At(x, <<i, b, h, d>>)
              = QSum([j \in 1 .. Sk |->
                       QMul(At(attn, <<i, b, h, j - 1>>), At(value, <<j - 1, b, h, d>>))])

\* the place of a statement in the order scale, mask, softmax, recording,
\* dropout, aggregation
Rank(step) ==
  CASE step = "scores" -> 1
    [] step = "masked_fill" -> 2
    [] step = "softmax" -> 3
    [] step = "tracker" -> 4
    [] step = "dropout" -> 5
    [] step = "einsum" -> 6
    [] OTHER -> 0

Ordered(seq) ==
  \A m, n \in 1 .. Len(seq) :
    (m < n /\ Rank(seq[m]) > 0 /\ Rank(seq[n]) > 0) => Rank(seq[m]) < Rank(seq[n])

\* C9: the statements of forward complete in the order scale, mask, softmax,
\* recording, dropout, aggregation; the recording receives the softmax
\* output, before dropout, and changes no tensor of the call.
C9_StepOrder ==
  [][ /\ Ordered(steps')
      /\ pc = "tracker"
           => /\ Last(steps) = "softmax"
              /\ tracked' = <<attn>>
              /\ attn' = attn /\ scores' = scores /\ value' = value
      /\ pc = "einsum" => Last(steps) = "dropout" /\ "tracker" \in Range(steps)
    ]_vars

C9_Witness ==
  /\ pc = "store"
  /\ "masked_fill" \in Range(steps)
  /\ tracked # <<>>
  /\ \E k \in 1 .. Len(attn.data) :
       attn.data[k] = Q(0) /\ IsFinite(tracked[1].data[k]) /\ tracked[1].data[k][1] > 0

\* C10: a forward call that raises leaves self.attn as it was before the
\* call.
C10_AttnOnlyOnSuccess ==
  /\ pc = "raised" => self_attn = attn_before
  /\ pc = "returned" => self_attn = <<attn>>

====
